---- MODULE Spec2Model ----
(***************************************************************************)
(* The priority scorers of the PrecisionAgriculture repository:            *)
(*   IntegratedAgricultureAnalyzer.calculate_comprehensive_priority        *)
(*     (src/src/analysis/integrated_analyzer.py)                           *)
(*   AgricultureAnalyzer.calculate_priority                                *)
(*     (src/src/data_collection/agriculture_analysis.py)                   *)
(* the report built from a scored table, and the dashboard                 *)
(*   EnhancedAgricultureDashboard.get_dashboard_data                       *)
(*     (src/src/web_app/app.py)                                            *)
(* with the sqlite file it reads                                           *)
(*     (src/src/data_collection/database_setup.py),                        *)
(* the NDVI services (src/src/data_collection/nasa_api.py and app.py) and  *)
(* the whole farm analysis                                                 *)
(*   IntegratedAgricultureAnalyzer.get_complete_farm_analysis.             *)
(*                                                                         *)
(* Floating point columns are modelled by exact rationals plus one         *)
(* non-finite value NaN, with the propagation rules of pandas/numpy:       *)
(* x / 0 is not an exception but a non-finite value, Series.sum() skips    *)
(* NaN, and astype(int) raises ValueError on a non-finite value and        *)
(* truncates toward zero otherwise.                                        *)
(***************************************************************************)
EXTENDS Integers, Sequences, FiniteSets, TLC

VARIABLES
    df,        \* the caller's table (a pandas DataFrame): kind, columns, rows
    call,      \* the arguments of the scorer call that was made
    result,    \* how the call ended: outcome and the returned (sorted) rows
    previous,  \* the invocation made before this one on the same table
    report,    \* what generate_irrigation_recommendations computed
    db,        \* the data source of the dashboard: the sqlite file
    rng,       \* the number of draws taken from the process-wide generator
    requests,  \* the dashboard requests being served, each with its locals
    analysis,  \* the get_complete_farm_analysis run: its position and locals
    sim        \* a call of one of the NDVI services: its input and output

scorerVars == <<df, call, result>>

otherVars == <<previous, report, db, rng, requests, analysis, sim>>

vars == <<df, call, result, previous, report, db, rng, requests, analysis, sim>>

(***************************************************************************)
(* Bounds of the model and the value sets the inputs are drawn from.       *)
(***************************************************************************)
MaxFields == 3

YieldVals    == {20, 40}      \* historical_yield, in tenths of t/ha
NdviVals     == {4, 8}        \* ndvi_value / ndvi_health, in tenths
AreaVals     == {50, 80}      \* area_hectares
SoilVals     == {1, 2}        \* soil_moisture, in tenths
DroughtVals  == {8}           \* drought_risk, in tenths
WaterReqVals == {1000}        \* water_requirement, m3
TieVals      == {70, 80}      \* draws of np.random.uniform(0.7, 0.9), in hundredths
AvailVals    == {-1000, 0, 1000, 5000}   \* available_water arguments

\* A call may pass no weights argument (<<>>) or try to pass a weights vector
\* (hundredths); neither scorer declares such a parameter.
NoWeights  == <<>>
WeightArgs == {NoWeights, <<35, 30, 25, 10>>, <<30, 20, 20, 10>>, <<50, 60, -20, 10>>}

(***************************************************************************)
(* Floating point values: a rational num/den (den > 0, reduced) or NaN.    *)
(***************************************************************************)
\* a whole column, computed once when it is assigned (the same function,
\* evaluated at the assignment rather than at every later read)
Column(f) == IF f = <<>> THEN <<>> ELSE f

Abs(x) == IF x < 0 THEN -x ELSE x

RECURSIVE GCD(_, _)
GCD(a, b) == IF b = 0 THEN a ELSE GCD(b, a % b)

NaN == [nan |-> TRUE, num |-> 0, den |-> 1]

\* the float n/d, d # 0
R(n, d) ==
    LET g == GCD(Abs(n), Abs(d))
        s == IF d < 0 THEN -1 ELSE 1
    IN  [nan |-> FALSE, num |-> (s * n) \div g, den |-> (s * d) \div g]

\* Sums, products and comparisons are taken over the reduced terms (common
\* factors cancelled before the multiplication), the same values as the
\* textbook formulas with smaller intermediate products.
RAdd(a, b) ==
    IF a.nan \/ b.nan THEN NaN
    ELSE LET g == GCD(a.den, b.den)
         IN  R(a.num * (b.den \div g) + b.num * (a.den \div g),
               (a.den \div g) * b.den)

RSub(a, b) ==
    IF a.nan \/ b.nan THEN NaN
    ELSE LET g == GCD(a.den, b.den)
         IN  R(a.num * (b.den \div g) - b.num * (a.den \div g),
               (a.den \div g) * b.den)

RMul(a, b) ==
    IF a.nan \/ b.nan THEN NaN
    ELSE IF a.num = 0 \/ b.num = 0 THEN R(0, 1)
    ELSE LET g == GCD(Abs(a.num), b.den)
             h == GCD(Abs(b.num), a.den)
         IN  R((a.num \div g) * (b.num \div h),
               (a.den \div h) * (b.den \div g))

\* Float division never raises: 0/0 is NaN and x/0 is +-inf.  Both are
\* non-finite, stay non-finite under the arithmetic that follows and are
\* rejected alike by astype(int), so the one value NaN stands for them.
RDiv(a, b) ==
    IF a.nan \/ b.nan THEN NaN
    ELSE IF b.num = 0 THEN NaN
    ELSE IF a.num = 0 THEN R(0, 1)
    ELSE LET g == GCD(Abs(a.num), Abs(b.num))
             h == GCD(a.den, b.den)
         IN  R((a.num \div g) * (b.den \div h),
               (a.den \div h) * (b.num \div g))

RLess(a, b) ==
    LET g == GCD(a.den, b.den)
    IN  a.num * (b.den \div g) < b.num * (a.den \div g)

RLeq(a, b) ==
    LET g == GCD(a.den, b.den)
    IN  a.num * (b.den \div g) <= b.num * (a.den \div g)

\* a cast that rounds away from zero instead
TruncUp(a) ==
    IF a.num >= 0 THEN (a.num + a.den - 1) \div a.den
    ELSE -(((-a.num) + a.den - 1) \div a.den)

\* int(x) of a finite float: truncation toward zero
Trunc(a) ==
    IF a.num >= 0 THEN a.num \div a.den ELSE -((-a.num) \div a.den)

\* the values of a series that are not NaN
Valid(col) == {col[i] : i \in {j \in 1..Len(col) : ~col[j].nan}}

\* Series.min() / Series.max(): skipna=True, NaN on an empty or all-NaN series
SeriesMin(col) ==
    LET vals == Valid(col)
    IN  IF vals = {} THEN NaN
        ELSE CHOOSE m \in vals : \A v \in vals : RLeq(m, v)

SeriesMax(col) ==
    LET vals == Valid(col)
    IN  IF vals = {} THEN NaN
        ELSE CHOOSE m \in vals : \A v \in vals : RLeq(v, m)

\* Series.sum(): skipna=True, 0 for an empty or all-NaN series
RECURSIVE SumUpTo(_, _)
SumUpTo(col, k) ==
    IF k = 0 THEN R(0, 1)
    ELSE IF col[k].nan THEN SumUpTo(col, k - 1)
    ELSE RAdd(SumUpTo(col, k - 1), col[k])

SeriesSum(col) == SumUpTo(col, Len(col))

\* a scaling that forgets to subtract the minimum: s / (s.max() - s.min())
MinMaxUnshifted(col) ==
    LET lo == SeriesMin(col)
        hi == SeriesMax(col)
    IN  [i \in 1..Len(col) |-> RDiv(col[i], RSub(hi, lo))]

\* a cell of a column without a value: None in the records, NaN in the
\* float column pandas builds from them
None == -1

\* the float of a cell holding v tenths
Cell(v) == IF v = None THEN NaN ELSE R(v, 10)

\* (s - s.min()) / (s.max() - s.min())
MinMaxScore(s) ==
    LET col == Column(s)
        lo  == SeriesMin(col)
        hi  == SeriesMax(col)
    IN  Column([i \in 1..Len(col) |-> RDiv(RSub(col[i], lo), RSub(hi, lo))])

(***************************************************************************)
(* Program constants.                                                      *)
(***************************************************************************)
YIELD_WEIGHT    == 35    \* 0.35 * yield_score        / yield_potential
HEALTH_WEIGHT   == 30    \* 0.30 * health_score       / crop_health
THIRD_WEIGHT    == 25    \* 0.25 * area_score         / moisture_deficit
TIEBREAK_WEIGHT == 10    \* 0.10 * uniform(0.7, 0.9)  / drought_risk
AVAILABLE_WATER == 5000  \* available_water of calculate_comprehensive_priority,
                         \* and the default of calculate_priority
PER_HECTARE     == 15    \* m3 per hectare in allocation_sufficiency

\* a mistyped weight
WeightsMistyped == <<YIELD_WEIGHT, HEALTH_WEIGHT, THIRD_WEIGHT, 2 * TIEBREAK_WEIGHT>>

Weights == <<YIELD_WEIGHT, HEALTH_WEIGHT, THIRD_WEIGHT, TIEBREAK_WEIGHT>>

\* w1*a + w2*b + w3*c + w4*d, the weights in hundredths
WeightedSum(a, b, c, d) ==
    RAdd(RAdd(RAdd(RMul(R(Weights[1], 100), a),
                   RMul(R(Weights[2], 100), b)),
              RMul(R(Weights[3], 100), c)),
         RMul(R(Weights[4], 100), d))

\* the share with a zero amount taken for a missing one
\* (available_water = available_water or 5000)
ShareOrDefault(prio, avail) ==
    LET total_priority == SeriesSum(prio)
    IN  [i \in 1..Len(prio) |->
            RMul(RDiv(prio[i], total_priority),
                 R(IF avail = 0 THEN AVAILABLE_WATER ELSE avail, 1))]

\* (priority / total_priority * available_water), before astype(int)
Share(prio, avail) ==
    LET total_priority == SeriesSum(prio)
    IN  Column([i \in 1..Len(prio) |->
                   RMul(RDiv(prio[i], total_priority), R(avail, 1))])

\* a floor division, allocated // required
SufficiencyFloored(allocated, required) ==
    IF required = 0 THEN NaN ELSE R(allocated \div required, 1)

\* allocated_water / required: a float division of two columns
Sufficiency(allocated, required) == RDiv(R(allocated, 1), R(required, 1))

\* astype(int) raises ValueError when a value is NaN or inf
CastRaises(col) == \E i \in 1..Len(col) : col[i].nan

\* sort_values(..., ascending=False) with the default kind='quicksort':
\* descending, and the order among equal keys is not specified (it depends on
\* the numpy build and on the length), so every descending order is possible.
\* The orders are built front to back: any of the largest keys left comes
\* next.
RECURSIVE DescendingFrom(_, _)
DescendingFrom(prio, rest) ==
    IF rest = {} THEN {<<>>}
    ELSE LET tops == {i \in rest : \A j \in rest : ~RLess(prio[i], prio[j])}
         IN  UNION {{<<i>> \o t : t \in DescendingFrom(prio, rest \ {i})} :
                       i \in tops}

SortOrders(prio) == DescendingFrom(prio, 1..Len(prio))

Reorder(rows, p) == [i \in 1..Len(rows) |-> rows[p[i]]]

(***************************************************************************)
(* IntegratedAgricultureAnalyzer.calculate_comprehensive_priority          *)
(***************************************************************************)
\* the columns assigned on the copy up to comprehensive_priority
ComprehensiveScored(frame, tie) ==
    LET rows == frame.rows
        n    == Len(rows)
        ys   == MinMaxScore([i \in 1..n |-> R(rows[i].historical_yield, 10)])
        hs   == IF "ndvi_value" \in frame.columns
                THEN MinMaxScore([i \in 1..n |->
                         IF frame.kind = "farm" THEN rows[i].ndvi_value
                         ELSE Cell(rows[i].ndvi_value)])
                ELSE [i \in 1..n |-> R(1, 2)]
        ars  == MinMaxScore([i \in 1..n |-> R(rows[i].area_hectares, 1)])
    IN  [i \in 1..n |->
            rows[i] @@
            [yield_score  |-> ys[i],
             health_score |-> hs[i],
             area_score   |-> ars[i],
             tiebreak     |-> tie[i],
             comprehensive_priority |->
                 WeightedSum(ys[i], hs[i], ars[i], R(tie[i], 100))]]

\* the set of ways the call can end, for one draw of the tie-break terms
ComprehensiveResults(frame, tie) ==
    LET scored == Column(ComprehensiveScored(frame, tie))
        n      == Len(scored)
        prio   == Column([i \in 1..n |-> scored[i].comprehensive_priority])
        share  == Share(prio, AVAILABLE_WATER)
        full   == Column([i \in 1..n |->
                     scored[i] @@
                     [allocated_water |-> Trunc(share[i]),
                      allocation_sufficiency |->
                          Sufficiency(Trunc(share[i]),
                                      scored[i].area_hectares * PER_HECTARE)]])
    IN  IF CastRaises(share)
        THEN {[outcome |-> "ValueError", total_priority |-> SeriesSum(prio),
               rows |-> <<>>]}
        ELSE {[outcome |-> "ok", total_priority |-> SeriesSum(prio),
               rows |-> Reorder(full, p)] : p \in SortOrders(prio)}

(***************************************************************************)
(* AgricultureAnalyzer.calculate_priority                                  *)
(***************************************************************************)
\* the columns written into the caller's df up to resilience_priority
PriorityScored(frame) ==
    LET rows == frame.rows
        n    == Len(rows)
        yp   == MinMaxScore([i \in 1..n |-> R(rows[i].historical_yield, 10)])
        ch   == MinMaxScore([i \in 1..n |-> R(rows[i].ndvi_health, 10)])
        soil == [i \in 1..n |-> R(rows[i].soil_moisture, 10)]
        md   == [i \in 1..n |-> RSub(R(1, 1), RDiv(soil[i], SeriesMax(soil)))]
    IN  [i \in 1..n |->
            rows[i] @@
            [yield_potential  |-> yp[i],
             crop_health      |-> ch[i],
             moisture_deficit |-> md[i],
             resilience_priority |->
                 WeightedSum(yp[i], ch[i], md[i], R(rows[i].drought_risk, 10))]]

\* allocated_water and allocation_sufficiency, written when the cast succeeds
PriorityAllocated(scored, avail) ==
    LET n     == Len(scored)
        prio  == [i \in 1..n |-> scored[i].resilience_priority]
        share == Share(prio, avail)
    IN  [i \in 1..n |->
            scored[i] @@
            [allocated_water |-> Trunc(share[i]),
             allocation_sufficiency |->
                 Sufficiency(Trunc(share[i]), scored[i].water_requirement)]]

ScoreColumns == {"yield_potential", "crop_health", "moisture_deficit",
                 "resilience_priority"}

AllocColumns == {"allocated_water", "allocation_sufficiency"}

\* the ways the call can end: the caller's df afterwards and the result
PriorityResults(frame, avail) ==
    LET scored == Column(PriorityScored(frame))
        n      == Len(scored)
        prio   == Column([i \in 1..n |-> scored[i].resilience_priority])
        full   == PriorityAllocated(scored, avail)
    IN  IF CastRaises(Share(prio, avail))
        THEN {[df  |-> [frame EXCEPT !.columns = @ \cup ScoreColumns,
                                     !.rows = scored],
               res |-> [outcome |-> "ValueError",
                        total_priority |-> SeriesSum(prio), rows |-> <<>>]]}
        ELSE {[df  |-> [frame EXCEPT !.columns = @ \cup ScoreColumns \cup AllocColumns,
                                     !.rows = full],
               res |-> [outcome |-> "ok", total_priority |-> SeriesSum(prio),
                        rows |-> Reorder(full, p)]] : p \in SortOrders(prio)}

(***************************************************************************)
(* The tables a caller can hand to the scorers.                            *)
(***************************************************************************)
Tables(cells) ==
    UNION {{[i \in 1..n |-> [field_name |-> i] @@ f[i]] : f \in [1..n -> cells]} :
             n \in 0..MaxFields}

IntegratedCells ==
    [area_hectares : AreaVals, historical_yield : YieldVals, ndvi_value : NdviVals]

IntegratedCellsNoNdvi ==
    [area_hectares : AreaVals, historical_yield : YieldVals]

LegacyCells ==
    [historical_yield : YieldVals, ndvi_health : NdviVals, soil_moisture : SoilVals,
     drought_risk : DroughtVals, water_requirement : WaterReqVals]

IntegratedColumns == {"field_name", "area_hectares", "historical_yield"}

LegacyColumns == {"field_name", "historical_yield", "ndvi_health", "soil_moisture",
                  "drought_risk", "water_requirement"}

Frames ==
    {[kind |-> "integrated", columns |-> IntegratedColumns \cup {"ndvi_value"},
      rows |-> t] : t \in Tables(IntegratedCells)}
    \cup
    {[kind |-> "integrated", columns |-> IntegratedColumns,
      rows |-> t] : t \in Tables(IntegratedCellsNoNdvi)}
    \cup
    {[kind |-> "legacy", columns |-> LegacyColumns,
      rows |-> t] : t \in Tables(LegacyCells)}

NoCall == [scorer |-> "none", available_water |-> 0, weights |-> NoWeights,
           tiebreak |-> <<>>]

NoResult == [outcome |-> "none", total_priority |-> R(0, 1), rows |-> <<>>]

\* a positional argument the signature does not declare: TypeError at the call
TypeErrorResult == [outcome |-> "TypeError", total_priority |-> R(0, 1), rows |-> <<>>]

NoRun == [call |-> NoCall, result |-> NoResult]

NoReport == [outcome |-> "none"]

NoDatabase ==
    [exists |-> FALSE, schema |-> FALSE, farms |-> <<>>, fields |-> <<>>,
     zones |-> <<>>, satellite |-> <<>>]

NoAnalysis == [pc |-> "none"]

NoSim == [service |-> "none"]

NoFrame == [kind |-> "none", columns |-> {}, rows |-> <<>>]

\* nothing but the scorer is in use
OthersIdle ==
    /\ previous = NoRun
    /\ report = NoReport
    /\ db = NoDatabase
    /\ rng = 0
    /\ requests = <<>>
    /\ analysis = NoAnalysis
    /\ sim = NoSim

Init ==
    /\ df \in Frames
    /\ call = NoCall
    /\ result = NoResult
    /\ OthersIdle

\* analyzer.calculate_comprehensive_priority(fields_df, zones_df [, weights])
CalculateComprehensivePriority ==
    /\ result.outcome = "none"
    /\ df.kind = "integrated"
    /\ \E w \in WeightArgs :
          IF w # NoWeights
          THEN /\ call' = [scorer |-> "comprehensive",
                           available_water |-> AVAILABLE_WATER,
                           weights |-> w, tiebreak |-> <<>>]
               /\ result' = TypeErrorResult
          ELSE \E tie \in [1..Len(df.rows) -> TieVals] :
                  /\ call' = [scorer |-> "comprehensive",
                              available_water |-> AVAILABLE_WATER,
                              weights |-> w, tiebreak |-> tie]
                  /\ result' \in ComprehensiveResults(df, tie)
    /\ UNCHANGED df
    /\ UNCHANGED otherVars

\* analyzer.calculate_priority(df, available_water [, weights])
CalculatePriority ==
    /\ result.outcome = "none"
    /\ df.kind = "legacy"
    /\ \E w \in WeightArgs, avail \in AvailVals :
          /\ call' = [scorer |-> "priority", available_water |-> avail,
                      weights |-> w, tiebreak |-> <<>>]
          /\ IF w # NoWeights
             THEN /\ result' = TypeErrorResult
                  /\ df' = df
             ELSE \E o \in PriorityResults(df, avail) :
                     /\ df' = o.df
                     /\ result' = o.res
    /\ UNCHANGED otherVars

Next ==
    \/ CalculateComprehensivePriority
    \/ CalculatePriority

Spec == Init /\ [][Next]_vars

(***************************************************************************)
(* Vocabulary of the properties.                                           *)
(***************************************************************************)
Called   == result.outcome # "none"
Computed == Called /\ call.weights = NoWeights   \* the body of the scorer ran
Returned == result.outcome = "ok"

NumRows == Len(df.rows)

PriorityOf(r) ==
    IF call.scorer = "comprehensive" THEN r.comprehensive_priority
    ELSE r.resilience_priority

YieldScoreOf(r) ==
    IF call.scorer = "comprehensive" THEN r.yield_score ELSE r.yield_potential

HealthScoreOf(r) ==
    IF call.scorer = "comprehensive" THEN r.health_score ELSE r.crop_health

HealthColumn == IF df.kind = "integrated" THEN "ndvi_value" ELSE "ndvi_health"

HasColumn(c) == c \in df.columns

InputValues(c) == {df.rows[i][c] : i \in 1..NumRows}

MinInt(S) == CHOOSE m \in S : \A x \in S : m <= x

MaxInt(S) == CHOOSE m \in S : \A x \in S : x <= m

\* max == min in a column of a non-empty batch
Degenerate(c) == HasColumn(c) /\ Cardinality(InputValues(c)) = 1

\* some normalized dimension of the batch has max == min
DegenerateBatch ==
    \/ Degenerate("historical_yield")
    \/ Degenerate(HealthColumn)
    \/ (df.kind = "integrated" /\ Degenerate("area_hectares"))

Half == R(1, 2)

\* the normalized score the specification prescribes for value v of column c
ExpectedScore(c, v) ==
    IF Degenerate(c) THEN Half
    ELSE R(v - MinInt(InputValues(c)), MaxInt(InputValues(c)) - MinInt(InputValues(c)))

RECURSIVE SumAllocated(_, _)
SumAllocated(rows, k) ==
    IF k = 0 THEN 0 ELSE SumAllocated(rows, k - 1) + rows[k].allocated_water

TotalAllocated == SumAllocated(result.rows, Len(result.rows))

RECURSIVE SumPriority(_, _)
SumPriority(rows, k) ==
    IF k = 0 THEN R(0, 1) ELSE RAdd(SumPriority(rows, k - 1), PriorityOf(rows[k]))

TotalPriority == SumPriority(result.rows, Len(result.rows))

Floor(a) == a.num \div a.den

SumInts(w) == w[1] + w[2] + w[3] + w[4]

(***************************************************************************)
(* C1: for every non-empty batch and every available_resource >= 0, the    *)
(* allocations the scorer produces sum to at most available_resource, and  *)
(* what truncation leaves over is less than the number of fields.          *)
(***************************************************************************)
C1_AllocationWithinResource ==
    (Returned /\ NumRows > 0 /\ call.available_water >= 0) =>
        /\ Len(result.rows) = NumRows
        /\ TotalAllocated <= call.available_water
        /\ call.available_water - TotalAllocated < NumRows

\* three fields scored, and truncation has left two units unallocated
C1_Witness ==
    /\ Returned
    /\ NumRows = 3
    /\ call.available_water > 0
    /\ call.available_water - TotalAllocated = 2

(***************************************************************************)
(* C2: when all fields share the same value in a normalized dimension,     *)
(* every field gets the constant score 0.5 for that dimension (no division *)
(* by zero), and the other dimensions get (value - min) / (max - min).     *)
(* Stated on batches of two or more fields; the batch of one is C5.        *)
(***************************************************************************)
C2_DegenerateFallback ==
    (Computed /\ NumRows >= 2 /\ DegenerateBatch) =>
        /\ Returned
        /\ \A i \in 1..Len(result.rows) :
              LET r == result.rows[i]
              IN  /\ YieldScoreOf(r) = ExpectedScore("historical_yield", r.historical_yield)
                  /\ HasColumn(HealthColumn) =>
                        HealthScoreOf(r) = ExpectedScore(HealthColumn, r[HealthColumn])
                  /\ df.kind = "integrated" =>
                        r.area_score = ExpectedScore("area_hectares", r.area_hectares)

(***************************************************************************)
(* C3: the returned fields are in descending priority order, and fields of *)
(* equal priority keep their input order (stable ranking).  Stated for    *)
(* calculate_priority, whose priorities are a function of the data alone,  *)
(* so that equal priorities are exact ties of the input.                   *)
(***************************************************************************)
C3_StableDescendingRanking ==
    (Returned /\ call.scorer = "priority" /\ call.available_water >= 0) =>
        \A i, j \in 1..Len(result.rows) :
            i < j =>
                \/ RLess(PriorityOf(result.rows[j]), PriorityOf(result.rows[i]))
                \/ /\ PriorityOf(result.rows[i]) = PriorityOf(result.rows[j])
                   /\ result.rows[i].field_name < result.rows[j].field_name

(***************************************************************************)
(* C4: when total_priority is non-zero every allocated_amount is           *)
(* floor(priority / total_priority * available_resource), and in the       *)
(* scenario A (area 50, yield 4.0, health 0.8), B (area 50, yield 2.0,      *)
(* health 0.4), tie-break 0.8 for both, the allocations are 805 and 194.   *)
(***************************************************************************)
ScenarioFrame ==
    [kind |-> "integrated", columns |-> IntegratedColumns \cup {"ndvi_value"},
     rows |-> <<[field_name |-> 1, area_hectares |-> 50, historical_yield |-> 40,
                 ndvi_value |-> 8],
                [field_name |-> 2, area_hectares |-> 50, historical_yield |-> 20,
                 ndvi_value |-> 4]>>]

C4_FloorAllocationAndScenario ==
    /\ (Returned /\ call.scorer = "comprehensive" /\ TotalPriority.num # 0) =>
          \A i \in 1..Len(result.rows) :
              result.rows[i].allocated_water =
                  Floor(RMul(RDiv(PriorityOf(result.rows[i]), TotalPriority),
                             R(call.available_water, 1)))
    /\ (/\ df = ScenarioFrame
        /\ call.scorer = "comprehensive"
        /\ call.weights = NoWeights
        /\ call.tiebreak = <<80, 80>>)
       =>
          /\ Returned
          /\ \A i \in 1..Len(result.rows) :
                /\ result.rows[i].field_name = 1 => result.rows[i].allocated_water = 805
                /\ result.rows[i].field_name = 2 => result.rows[i].allocated_water = 194

(***************************************************************************)
(* C5: scoring a batch of exactly one field raises no error, gives the     *)
(* field the fallback 0.5 for yield_score, health_score and area_score,    *)
(* and allocates it all of available_resource.                             *)
(***************************************************************************)
C5_SingleFieldBatch ==
    (Computed /\ NumRows = 1) =>
        /\ Returned
        /\ Len(result.rows) = 1
        /\ YieldScoreOf(result.rows[1]) = Half
        /\ HealthScoreOf(result.rows[1]) = Half
        /\ df.kind = "integrated" => result.rows[1].area_score = Half
        /\ result.rows[1].allocated_water = call.available_water

(***************************************************************************)
(* C6: the scorer invoked on an empty batch ends in InsufficientData and   *)
(* returns no result.                                                      *)
(***************************************************************************)
C6_EmptyBatchRejected ==
    (Computed /\ NumRows = 0) => result.outcome = "InsufficientData"

(***************************************************************************)
(* C7: with available_resource = 0 the scorer accepts the input (it ends   *)
(* as it does for any other amount: it returns for every batch it can      *)
(* score) and every allocated_amount is 0, whatever the priorities.        *)
(***************************************************************************)
C7_ZeroResourceAllZero ==
    (Computed /\ call.available_water = 0) =>
        /\ ~DegenerateBatch => Returned
        /\ Returned =>
              /\ Len(result.rows) = NumRows
              /\ \A i \in 1..Len(result.rows) : result.rows[i].allocated_water = 0

\* three fields of different priorities were scored with nothing to allocate
C7_Witness ==
    /\ Returned
    /\ call.available_water = 0
    /\ NumRows = 3
    /\ \E i, j \in 1..Len(result.rows) :
          RLess(PriorityOf(result.rows[j]), PriorityOf(result.rows[i]))
    /\ \A i \in 1..Len(result.rows) : result.rows[i].allocated_water = 0

(***************************************************************************)
(* C8: when the sum of the priorities of the batch is 0 the scorer gives   *)
(* every field an equal part of available_resource instead of dividing by  *)
(* total_priority.                                                         *)
(***************************************************************************)
C8_ZeroTotalEqualSplit ==
    (Computed /\ NumRows >= 2 /\ result.total_priority = R(0, 1)) =>
        /\ Returned
        /\ \A i \in 1..Len(result.rows) :
              result.rows[i].allocated_water = Trunc(R(call.available_water, NumRows))

C10_NegativeResourceRejected ==
    (Computed /\ call.available_water < 0 /\ NumRows > 0 /\ ~DegenerateBatch) =>
        /\ result.outcome = "InvalidResource"
        /\ result.rows = <<>>

(***************************************************************************)
(* C11: in every table calculate_comprehensive_priority returns,           *)
(* yield_score, health_score and area_score of every field lie in [0,1],   *)
(* the priority equals 0.35*yield_score + 0.30*health_score +              *)
(* 0.25*area_score + 0.10*tiebreak_term, and the priority lies in [0,1].   *)
(***************************************************************************)
InUnit(a) == ~a.nan /\ 0 <= a.num /\ a.num <= a.den

C11_ScoresAndPriorityInUnitInterval ==
    (Returned /\ call.scorer = "comprehensive") =>
        /\ Len(result.rows) = NumRows
        /\ \A i \in 1..Len(result.rows) :
              LET r == result.rows[i]
              IN  /\ InUnit(r.yield_score)
                  /\ InUnit(r.health_score)
                  /\ InUnit(r.area_score)
                  /\ r.comprehensive_priority =
                        R(  YIELD_WEIGHT    * r.yield_score.num
                                * r.health_score.den * r.area_score.den * 100
                          + HEALTH_WEIGHT   * r.health_score.num
                                * r.yield_score.den * r.area_score.den * 100
                          + THIRD_WEIGHT    * r.area_score.num
                                * r.yield_score.den * r.health_score.den * 100
                          + TIEBREAK_WEIGHT * r.tiebreak
                                * r.yield_score.den * r.health_score.den
                                * r.area_score.den,
                          10000 * r.yield_score.den * r.health_score.den
                                * r.area_score.den)
                  /\ InUnit(r.comprehensive_priority)

\* a returned table holds a field with the three scores at 1 (priority above
\* 0.9) and a field with the three scores at 0 (priority below 0.1)
C11_Witness ==
    /\ Returned
    /\ call.scorer = "comprehensive"
    /\ \E i, j \in 1..Len(result.rows) :
          LET hi == result.rows[i]
              lo == result.rows[j]
          IN  /\ hi.yield_score = R(1, 1) /\ hi.health_score = R(1, 1)
              /\ hi.area_score = R(1, 1)
              /\ RLess(R(9, 10), hi.comprehensive_priority)
              /\ lo.yield_score = R(0, 1) /\ lo.health_score = R(0, 1)
              /\ lo.area_score = R(0, 1)
              /\ RLess(lo.comprehensive_priority, R(1, 10))

(***************************************************************************)
(* C13: for every field calculate_comprehensive_priority scores, the       *)
(* sufficiency ratio equals allocated_water / (area_hectares * 15), is     *)
(* non-negative, and is linear in the allocation for a fixed area: fields  *)
(* of the same area have ratios in the proportion of their allocations.    *)
(***************************************************************************)
C13_SufficiencyRatioLinear ==
    (Returned /\ call.scorer = "comprehensive") =>
        /\ \A i \in 1..Len(result.rows) :
              LET r == result.rows[i]
              IN  /\ ~r.allocation_sufficiency.nan
                  /\ r.allocation_sufficiency.num * r.area_hectares * PER_HECTARE
                        = r.allocated_water * r.allocation_sufficiency.den
                  /\ r.allocation_sufficiency.num >= 0
        /\ \A i, j \in 1..Len(result.rows) :
              LET a == result.rows[i]
                  b == result.rows[j]
              IN  a.area_hectares = b.area_hectares =>
                      RMul(a.allocation_sufficiency, R(b.allocated_water, 1))
                        = RMul(b.allocation_sufficiency, R(a.allocated_water, 1))

\* two scored fields of the same area got different, positive allocations,
\* neither a multiple of the field's requirement
C13_Witness ==
    /\ Returned
    /\ call.scorer = "comprehensive"
    /\ \E i, j \in 1..Len(result.rows) :
          LET a == result.rows[i]
              b == result.rows[j]
          IN  /\ a.area_hectares = b.area_hectares
              /\ 0 < a.allocated_water
              /\ a.allocated_water < b.allocated_water
              /\ a.allocated_water % (a.area_hectares * PER_HECTARE) # 0
              /\ b.allocated_water % (b.area_hectares * PER_HECTARE) # 0

(***************************************************************************)
(* The ranking under the whole range of the tie-break draws: tables        *)
(* without an ndvi_value column (health_score is the constant 0.5), three  *)
(* yields of which two are close, and draws at both ends of the range.     *)
(***************************************************************************)
\* draws of a wider source, np.random.uniform(0, 1)
WideDrawVals == {0, 100}

\* draws of np.random.uniform(0.7, 0.9), in hundredths: the two ends of the
\* range (the upper end over-approximates the half-open range)
DrawVals == {70, 90}

RankingYieldVals == {20, 22, 40}   \* historical_yield, in tenths of t/ha

RankingCells == [area_hectares : AreaVals, historical_yield : RankingYieldVals]

RankingFrames ==
    {[kind |-> "integrated", columns |-> IntegratedColumns, rows |-> t] :
        t \in Tables(RankingCells)}

InitRanking ==
    /\ df \in RankingFrames
    /\ call = NoCall
    /\ result = NoResult
    /\ OthersIdle

\* analyzer.calculate_comprehensive_priority(fields_df, zones_df), the
\* generator giving draws out of `draws`
ComprehensivePriorityCall(draws) ==
    /\ df.kind = "integrated"
    /\ \E tie \in [1..Len(df.rows) -> draws] :
          /\ call' = [scorer |-> "comprehensive",
                      available_water |-> AVAILABLE_WATER,
                      weights |-> NoWeights, tiebreak |-> tie]
          /\ result' \in ComprehensiveResults(df, tie)
    /\ UNCHANGED df

CalculateComprehensivePriorityDrawn ==
    /\ result.outcome = "none"
    /\ ComprehensivePriorityCall(DrawVals)
    /\ UNCHANGED otherVars

NextRanking == CalculateComprehensivePriorityDrawn

SpecRanking == InitRanking /\ [][NextRanking]_vars

\* 0.35*yield_score + 0.30*health_score + 0.25*area_score of a scored field
WeightedScore(r) ==
    RAdd(RAdd(RMul(R(YIELD_WEIGHT, 100), r.yield_score),
              RMul(R(HEALTH_WEIGHT, 100), r.health_score)),
         RMul(R(THIRD_WEIGHT, 100), r.area_score))

(***************************************************************************)
(* C12: the tie-break term of every field lies in [0.7, 0.9] and carries   *)
(* the smallest of the four weights; whenever the weighted normalized      *)
(* scores of two fields differ by more than 0.02, the field with the       *)
(* larger weighted score is ranked first, whatever the draws.              *)
(***************************************************************************)
C12_TieBreakCannotDominate ==
    /\ \A k \in 1..3 : TIEBREAK_WEIGHT < Weights[k]
    /\ Weights[4] = TIEBREAK_WEIGHT
    /\ (Returned /\ call.scorer = "comprehensive") =>
          /\ \A i \in 1..Len(result.rows) :
                /\ 70 <= result.rows[i].tiebreak
                /\ result.rows[i].tiebreak <= 90
          /\ \A i, j \in 1..Len(result.rows) :
                RLess(R(2, 100), RSub(WeightedScore(result.rows[i]),
                                      WeightedScore(result.rows[j])))
                    => i < j

\* a field whose weighted score is larger by 0.035 drew 0.7, the other field
\* drew 0.9, and the first is ranked before the second
C12_Witness ==
    /\ Returned
    /\ call.scorer = "comprehensive"
    /\ \E i, j \in 1..Len(result.rows) :
          /\ i < j
          /\ RSub(WeightedScore(result.rows[i]), WeightedScore(result.rows[j]))
                = R(35, 1000)
          /\ result.rows[i].tiebreak = 70
          /\ result.rows[j].tiebreak = 90

(***************************************************************************)
(* The analysis of a farm: field tables in which a field may be without    *)
(* an NDVI value, the filling of the missing values                        *)
(* (get_complete_farm_analysis), the scorer, and the summary of the        *)
(* scored table (generate_irrigation_recommendations and                   *)
(* create_comprehensive_report).                                           *)
(***************************************************************************)
MidDraws == {80}    \* one draw of np.random.uniform(0.7, 0.9), in hundredths

DEFAULT_NDVI == 5   \* fillna(0.5), in tenths

AnalysisCells ==
    [area_hectares : AreaVals, historical_yield : YieldVals,
     ndvi_value : NdviVals \cup {None}]

AnalysisFrames ==
    {[kind |-> "integrated", columns |-> IntegratedColumns \cup {"ndvi_value"},
      rows |-> t] : t \in Tables(AnalysisCells)}

InitAnalysis ==
    /\ df \in AnalysisFrames
    /\ call = NoCall
    /\ result = NoResult
    /\ OthersIdle

MissingNdvi(rows) == {i \in 1..Len(rows) : rows[i].ndvi_value = None}

\* fields_df['ndvi_value'] = fields_df['ndvi_value'].fillna(0.5), after the
\* field names were mapped to the NDVI values there are
FillMissingNdvi ==
    /\ result.outcome = "none"
    /\ MissingNdvi(df.rows) # {}
    /\ df' = [df EXCEPT !.rows =
                 [i \in 1..Len(df.rows) |->
                     IF df.rows[i].ndvi_value = None
                     THEN [df.rows[i] EXCEPT !.ndvi_value = DEFAULT_NDVI]
                     ELSE df.rows[i]]]
    /\ UNCHANGED <<call, result>>
    /\ UNCHANGED otherVars

CalculateComprehensivePriorityMid ==
    /\ result.outcome = "none"
    /\ ComprehensivePriorityCall(MidDraws)
    /\ UNCHANGED otherVars

(***************************************************************************)
(* C14: a field record that arrives at the scorer without a health index   *)
(* is scored with the default health index 0.5: its health_score is the    *)
(* normalization of 0.5 among the health indices of the batch, and the     *)
(* call returns.  Stated on batches whose dimensions are not degenerate    *)
(* once the default is in place, where nothing else decides how the call   *)
(* ends.                                                                   *)
(***************************************************************************)
HealthIndexOrDefault(v) == IF v = None THEN DEFAULT_NDVI ELSE v

DefaultedHealth == {HealthIndexOrDefault(df.rows[i].ndvi_value) : i \in 1..NumRows}

RECURSIVE SumColumn(_, _)
SumColumn(col, k) == IF k = 0 THEN 0 ELSE SumColumn(col, k - 1) + col[k]

\* a count of the fields below the threshold of the dashboard, 0.6
StressedFieldsBelowSixTenths(rows) ==
    Cardinality({i \in 1..Len(rows) :
                    RLess(rows[i].allocation_sufficiency, R(6, 10))})

\* len(analysis_data[analysis_data['allocation_sufficiency'] < 0.5])
StressedFields(rows) ==
    Cardinality({i \in 1..Len(rows) :
                    /\ ~rows[i].allocation_sufficiency.nan
                    /\ RLess(rows[i].allocation_sufficiency, R(1, 2))})

NoReportData == [written |-> FALSE]

\* analyzer.generate_irrigation_recommendations(analysis_results): the
\* division of numpy sums gives NaN on 0/0, the division of the two len()
\* raises ZeroDivisionError on an empty table
IrrigationRecommendations(rows) ==
    LET n    == Len(rows)
        total_allocated == SumColumn([i \in 1..n |-> rows[i].allocated_water], n)
        total_required  ==
            SumColumn([i \in 1..n |-> rows[i].area_hectares * PER_HECTARE], n)
        stressed_fields == StressedFields(rows)
    IN  IF n = 0 THEN [outcome |-> "ZeroDivisionError"]
        ELSE [outcome |-> "ok",
              total_allocated |-> total_allocated,
              total_required  |-> total_required,
              allocation_rate |->
                  RMul(RDiv(R(total_allocated, 1), R(total_required, 1)),
                       R(100, 1)),
              stressed_fields |-> stressed_fields,
              total_fields    |-> n,
              stress_percentage |-> RMul(R(stressed_fields, n), R(100, 1)),
              report_data |-> NoReportData]

GenerateIrrigationRecommendations ==
    /\ Returned
    /\ report.outcome = "none"
    /\ report' = IrrigationRecommendations(result.rows)
    /\ UNCHANGED <<df, call, result, previous, db, rng, requests, analysis, sim>>

\* analyzer.create_comprehensive_report(results), as main() calls it after
\* get_complete_farm_analysis has returned the scored table
CreateComprehensiveReport ==
    /\ report.outcome = "ok"
    /\ ~report.report_data.written
    /\ report' = [report EXCEPT !.report_data =
                     [written |-> TRUE,
                      total_fields_analyzed |-> Len(result.rows),
                      total_water_allocated |->
                          SumColumn([i \in 1..Len(result.rows) |->
                                        result.rows[i].allocated_water],
                                    Len(result.rows)),
                      water_stress_risk |->
                          R(StressedFields(result.rows), Len(result.rows))]]
    /\ UNCHANGED <<df, call, result, previous, db, rng, requests, analysis, sim>>

NextAnalysis ==
    \/ FillMissingNdvi
    \/ CalculateComprehensivePriorityMid
    \/ GenerateIrrigationRecommendations
    \/ CreateComprehensiveReport

SpecAnalysis == InitAnalysis /\ [][NextAnalysis]_vars

RECURSIVE SumArea(_, _)
SumArea(rows, k) ==
    IF k = 0 THEN 0 ELSE SumArea(rows, k - 1) + rows[k].area_hectares

\* the fields whose allocation is strictly below half of area * 15
AtRisk == {i \in 1..Len(result.rows) :
              2 * result.rows[i].allocated_water
                  < result.rows[i].area_hectares * PER_HECTARE}

(***************************************************************************)
(* C17: for every scored batch the summary holds total allocated =         *)
(* sum(allocated_water), total required = sum(area_hectares * 15),         *)
(* allocation rate = total allocated / total required * 100, the at-risk   *)
(* count = the number of fields whose sufficiency is strictly below 0.5,   *)
(* and the at-risk percentage = count / number of fields * 100; the        *)
(* report file carries the same count as a fraction.                       *)
(***************************************************************************)
C17_ReportSummary ==
    /\ (Returned /\ NumRows > 0 /\ report.outcome # "none") => report.outcome = "ok"
    /\ report.outcome = "ok" =>
          /\ report.total_fields = NumRows
          /\ report.total_allocated = TotalAllocated
          /\ report.total_required = PER_HECTARE * SumArea(result.rows, Len(result.rows))
          /\ ~report.allocation_rate.nan
          /\ report.allocation_rate.num * report.total_required
                = 100 * report.total_allocated * report.allocation_rate.den
          /\ report.stressed_fields = Cardinality(AtRisk)
          /\ report.stress_percentage = R(100 * Cardinality(AtRisk), NumRows)
          /\ report.report_data.written =>
                /\ report.report_data.total_fields_analyzed = NumRows
                /\ report.report_data.total_water_allocated = TotalAllocated
                /\ RMul(report.report_data.water_stress_risk, R(100, 1))
                      = report.stress_percentage

\* three fields were summarized and reported: some of them are at risk,
\* some are not
C17_Witness ==
    /\ report.outcome = "ok"
    /\ report.report_data.written
    /\ report.total_fields = 3
    /\ report.stressed_fields >= 1
    /\ report.stressed_fields < report.total_fields
    /\ report.total_allocated > 0

(***************************************************************************)
(* C15: the scorer has no side effects on its inputs: a call of            *)
(* calculate_comprehensive_priority or calculate_priority leaves the       *)
(* caller's table with the same rows, the same columns and the same        *)
(* values as before the call.                                              *)
(***************************************************************************)
C15_NoSideEffectsOnInput ==
    [][(/\ call' # call
        /\ call'.available_water >= 0
        /\ Len(df.rows) > 0
        /\ result'.outcome = "ok") => df' = df]_vars

(***************************************************************************)
(* Two invocations of calculate_comprehensive_priority on the same table.  *)
(* The function has no parameter for a random source: each invocation      *)
(* takes its draws from the process-wide generator of numpy, which nothing *)
(* in the repository seeds.                                                *)
(***************************************************************************)
RepeatFrames ==
    {[kind |-> "integrated", columns |-> IntegratedColumns, rows |-> t] :
        t \in Tables(IntegratedCellsNoNdvi)}

InitRepeat ==
    /\ df \in RepeatFrames
    /\ call = NoCall
    /\ result = NoResult
    /\ OthersIdle

\* analyzer.calculate_comprehensive_priority(fields_df, zones_df)
CalculateComprehensivePriorityFirst ==
    /\ result.outcome = "none"
    /\ ComprehensivePriorityCall(TieVals)
    /\ UNCHANGED otherVars

\* the same call once more, with the same arguments
CalculateComprehensivePriorityAgain ==
    /\ result.outcome # "none"
    /\ previous = NoRun
    /\ previous' = [call |-> call, result |-> result]
    /\ ComprehensivePriorityCall(TieVals)
    /\ UNCHANGED <<report, db, rng, requests, analysis, sim>>

NextRepeat ==
    \/ CalculateComprehensivePriorityFirst
    \/ CalculateComprehensivePriorityAgain

SpecRepeat == InitRepeat /\ [][NextRepeat]_vars

\* what a caller sees of a returned table: per rank the field, its priority
\* and its allocation
Ranking(res) ==
    [i \in 1..Len(res.rows) |->
        <<res.rows[i].field_name, res.rows[i].comprehensive_priority,
          res.rows[i].allocated_water>>]

(***************************************************************************)
(* C16: two invocations of the scorer with the same field batch, the same  *)
(* available amount and the same source of tie-break draws (the one the    *)
(* scorer has) return identical priorities, allocations and ranking.       *)
(***************************************************************************)
C16_DeterministicScorer ==
    (/\ previous # NoRun
     /\ previous.call.scorer = call.scorer
     /\ previous.call.available_water = call.available_water
     /\ previous.call.weights = call.weights)
    =>
        /\ result.outcome = previous.result.outcome
        /\ Ranking(result) = Ranking(previous.result)

(***************************************************************************)
(* The simulated NDVI services: NASAEarthData.calculate_ndvi_simulation    *)
(* (src/src/data_collection/nasa_api.py) and SatelliteDataService          *)
(* (src/src/web_app/app.py).  Values are exact rationals; the sine terms   *)
(* of the seasonal patterns are inputs drawn from their ranges.            *)
(***************************************************************************)
MaxSimFields == 2      \* length of the field_data list handed to the simulation

\* b > a and b < a of Python floats: False when either side is NaN
PyGreater(b, a) == ~a.nan /\ ~b.nan /\ RLess(a, b)

PyLess(b, a) == ~a.nan /\ ~b.nan /\ RLess(b, a)

\* a max that lets its second argument through unexamined
PyMaxSecond(a, b) == b

\* max(a, b): the first argument unless the second compares greater
PyMax(a, b) == IF PyGreater(b, a) THEN b ELSE a

\* min(a, b): the first argument unless the second compares smaller
PyMin(a, b) == IF PyLess(b, a) THEN b ELSE a

\* round(x, 3): the nearest multiple of 0.001, a tie going to the even one
Round3(a) ==
    IF a.nan THEN NaN
    ELSE LET n == a.num * 1000
             q == n \div a.den
             r == n - q * a.den
         IN  IF 2 * r < a.den THEN R(q, 1000)
             ELSE IF 2 * r > a.den THEN R(q + 1, 1000)
             ELSE IF q % 2 = 0 THEN R(q, 1000) ELSE R(q + 1, 1000)

\* field.get(key, default)
Get(field, key, default) == IF key \in DOMAIN field THEN field[key] ELSE default

\* seasonal_factor of calculate_ndvi_simulation for datetime.now().month
SeasonalFactor(month) ==
    IF 4 <= month /\ month <= 9 THEN RAdd(R(7, 10), R((month - 4) * 5, 100))
    ELSE R(3, 10)

\* simulated_ndvi of one field: 0.2 + base_health * 0.3 + base_yield * 0.2
\* + seasonal_factor * 0.1, clamped by min(0.8, max(0.2, .))
SimulatedNdvi(field, month) ==
    LET base_health == Get(field, "soil_health_score", R(1, 2))
        base_yield == RDiv(Get(field, "historical_yield", R(3, 1)), R(4, 1))
        raw == RAdd(RAdd(RAdd(R(2, 10), RMul(base_health, R(3, 10))),
                         RMul(base_yield, R(2, 10))),
                    RMul(SeasonalFactor(month), R(1, 10)))
    IN  PyMin(R(8, 10), PyMax(R(2, 10), raw))

\* calculate_ndvi_simulation(field_data) in a given month
NdviSimulation(fields, month) ==
    Column([i \in 1..Len(fields) |->
               LET ndvi == SimulatedNdvi(fields[i], month)
               IN  [field_name |-> fields[i].field_name,
                    ndvi_value |-> Round3(ndvi),
                    health_status |->
                        IF PyGreater(ndvi, R(1, 2)) THEN "healthy" ELSE "stressed"]])

\* get_fallback_ndvi_data: the constant 0.65
FallbackNdvi == R(65, 100)

\* get_nasa_ndvi_data: the sum of the four terms, rounded and clamped by
\* max(0.1, min(0.95, .)); any exception of the body gives the fallback
NasaNdvi(in) ==
    IF in.raises THEN FallbackNdvi
    ELSE LET raw == RAdd(RAdd(in.seasonal_base, in.location_factor),
                         RAdd(in.field_factor, in.weather_effect))
         IN  PyMax(R(1, 10), PyMin(R(95, 100), Round3(raw)))

\* get_historical_ndvi_trend: one point per week of the 30 days, each
\* round(max(0.2, min(0.9, base_ndvi + fluctuation)), 3)
HistoricalNdviTrend(base_ndvi, fluctuation) ==
    [i \in 1..Len(fluctuation) |->
        Round3(PyMax(R(2, 10), PyMin(R(9, 10), RAdd(base_ndvi, fluctuation[i]))))]

\* a report whose thresholds are exclusive
HealthReportExclusive(ndvi) ==
    IF PyGreater(ndvi, R(7, 10)) THEN [status |-> "healthy", risk_level |-> "low"]
    ELSE IF PyGreater(ndvi, R(5, 10)) THEN [status |-> "moderate", risk_level |-> "medium"]
    ELSE IF PyGreater(ndvi, R(3, 10)) THEN [status |-> "stressed", risk_level |-> "high"]
    ELSE [status |-> "critical", risk_level |-> "critical"]

\* ndvi_value >= x of Python floats
PyGeq(a, b) == ~a.nan /\ ~b.nan /\ RLeq(b, a)

\* get_vegetation_health_report(ndvi_value)
VegetationHealthReport(ndvi) ==
    IF PyGeq(ndvi, R(7, 10)) THEN [status |-> "healthy", risk_level |-> "low"]
    ELSE IF PyGeq(ndvi, R(5, 10)) THEN [status |-> "moderate", risk_level |-> "medium"]
    ELSE IF PyGeq(ndvi, R(3, 10)) THEN [status |-> "stressed", risk_level |-> "high"]
    ELSE [status |-> "critical", risk_level |-> "critical"]

SimNames == <<"North_Hills", "South_Valley", "East_Plateau", "West_Plains">>

SimHealthVals == {R(-5, 10), R(30, 10)}

SimYieldVals == {NaN, R(-40, 10), R(34, 10), R(400, 10)}

SimMonths == {3, 4, 9, 10}

\* the dicts a caller may hand over: soil_health_score and historical_yield
\* present or not
SimFieldsNamed(name) ==
    {[field_name |-> name]}
    \cup {[field_name |-> name, soil_health_score |-> h] : h \in SimHealthVals}
    \cup {[field_name |-> name, historical_yield |-> y] : y \in SimYieldVals}
    \cup {[field_name |-> name, soil_health_score |-> h, historical_yield |-> y] :
              h \in SimHealthVals, y \in SimYieldVals}

SimFieldLists ==
    UNION {{fs \in [1..n -> UNION {SimFieldsNamed(SimNames[i]) : i \in 1..n}] :
               \A i \in 1..n : fs[i].field_name = SimNames[i]} : n \in 0..MaxSimFields}

\* seasonal_base in [-0.1, 0.7], location_factor in [0, 0.5), field_factor
\* in [0, 0.29] (0.1 without a name), weather_effect in [-0.1, 0.1]; the
\* body raises on a latitude that is None
NasaInputs ==
    [raises : BOOLEAN,
     seasonal_base : {R(-1, 10), R(3, 10), R(7, 10)},
     location_factor : {R(0, 1), R(2537, 10000), R(49, 100)},
     field_factor : {R(0, 1), R(1, 10), R(29, 100)},
     weather_effect : {R(-1, 10), R(0, 1), R(1, 10)}]

TrendBases == {R(2, 10), R(5, 10), R(8, 10)}

TrendFluctuations == {R(-15, 100), R(3, 1000), R(15, 100)}

TREND_POINTS == 5   \* range(30, 0, -7)

ReportInputs ==
    {NaN} \cup {R(v, 1000) : v \in {-100, 0, 100, 299, 300, 301, 499, 500, 501,
                                     650, 699, 700, 701, 950, 1000, 1500}}

InitNdvi ==
    /\ df = NoFrame
    /\ call = NoCall
    /\ result = NoResult
    /\ previous = NoRun
    /\ report = NoReport
    /\ db = NoDatabase
    /\ rng = 0
    /\ requests = <<>>
    /\ analysis = NoAnalysis
    /\ sim = NoSim

simIdle == <<df, call, result, previous, report, db, rng, requests, analysis>>

\* each service is called once on a fresh input
CalculateNdviSimulation ==
    /\ sim = NoSim
    /\ \E fields \in SimFieldLists, month \in SimMonths :
          sim' = [service |-> "calculate_ndvi_simulation",
                  input |-> [fields |-> fields, month |-> month],
                  output |-> NdviSimulation(fields, month)]
    /\ UNCHANGED simIdle

GetNasaNdviData ==
    /\ sim = NoSim
    /\ \E in \in NasaInputs :
          sim' = [service |-> "get_nasa_ndvi_data", input |-> in,
                  output |-> <<NasaNdvi(in)>>]
    /\ UNCHANGED simIdle

GetFallbackNdviData ==
    /\ sim = NoSim
    /\ sim' = [service |-> "get_fallback_ndvi_data", input |-> <<>>,
               output |-> <<FallbackNdvi>>]
    /\ UNCHANGED simIdle

GetHistoricalNdviTrend ==
    /\ sim = NoSim
    /\ \E base \in TrendBases, fl \in [1..TREND_POINTS -> TrendFluctuations] :
          sim' = [service |-> "get_historical_ndvi_trend",
                  input |-> [base_ndvi |-> base, fluctuation |-> fl],
                  output |-> HistoricalNdviTrend(base, fl)]
    /\ UNCHANGED simIdle

GetVegetationHealthReport ==
    /\ sim = NoSim
    /\ \E ndvi \in ReportInputs :
          sim' = [service |-> "get_vegetation_health_report", input |-> ndvi,
                  output |-> VegetationHealthReport(ndvi)]
    /\ UNCHANGED simIdle

NextNdvi ==
    \/ CalculateNdviSimulation
    \/ GetNasaNdviData
    \/ GetFallbackNdviData
    \/ GetHistoricalNdviTrend
    \/ GetVegetationHealthReport

SpecNdvi == InitNdvi /\ [][NextNdvi]_vars

\* the NDVI values a service call returned
NdviOutputs ==
    IF sim.service = "calculate_ndvi_simulation"
    THEN {sim.output[i].ndvi_value : i \in 1..Len(sim.output)}
    ELSE IF sim.service \in {"get_nasa_ndvi_data", "get_fallback_ndvi_data",
                             "get_historical_ndvi_trend"}
    THEN {sim.output[i] : i \in 1..Len(sim.output)}
    ELSE {}

\* C23: every NDVI value the simulated sources return is a number in [0, 1],
\* and calculate_ndvi_simulation returns one result per input field, in the
\* order of the input (the i-th result carries the i-th field's name).
C23_SimulatedNdviInUnitInterval ==
    /\ \A v \in NdviOutputs : ~v.nan /\ RLeq(R(0, 1), v) /\ RLeq(v, R(1, 1))
    /\ sim.service = "calculate_ndvi_simulation" =>
           /\ Len(sim.output) = Len(sim.input.fields)
           /\ \A i \in 1..Len(sim.output) :
                  sim.output[i].field_name = sim.input.fields[i].field_name

\* two fields were simulated, the second with a yield that takes the raw
\* value far above 1; the clamp brought it to 0.8
C23_Witness ==
    /\ sim.service = "calculate_ndvi_simulation"
    /\ Len(sim.input.fields) = 2
    /\ "historical_yield" \in DOMAIN sim.input.fields[2]
    /\ sim.input.fields[2].historical_yield = R(400, 10)
    /\ sim.output[2].ndvi_value = R(8, 10)
    /\ sim.output[1].field_name = "North_Hills"

RiskRank(level) ==
    CASE level = "low" -> 0
      [] level = "medium" -> 1
      [] level = "high" -> 2
      [] level = "critical" -> 3

\* the status the thresholds 0.7, 0.5, 0.3 assign to a number
StatusByThreshold(v) ==
    IF RLeq(R(7, 10), v) THEN <<"healthy", "low">>
    ELSE IF RLeq(R(5, 10), v) THEN <<"moderate", "medium">>
    ELSE IF RLeq(R(3, 10), v) THEN <<"stressed", "high">>
    ELSE <<"critical", "critical">>

\* C28: get_vegetation_health_report gives every NDVI number the status of
\* its band (healthy from 0.7, moderate from 0.5, stressed from 0.3, critical
\* below) with the risk_level low, medium, high, critical of that status,
\* and no higher NDVI has a worse risk_level than the one reported.
C28_HealthReportTotalAndMonotone ==
    (sim.service = "get_vegetation_health_report" /\ ~sim.input.nan) =>
        /\ <<sim.output.status, sim.output.risk_level>> = StatusByThreshold(sim.input)
        /\ \A w \in ReportInputs :
               (~w.nan /\ RLeq(sim.input, w)) =>
                   RiskRank(VegetationHealthReport(w).risk_level)
                       <= RiskRank(sim.output.risk_level)

\* the report on an NDVI of exactly 0.7: healthy
C28_Witness ==
    /\ sim.service = "get_vegetation_health_report"
    /\ sim.input = R(7, 10)
    /\ sim.output.status = "healthy"
    /\ sim.output.risk_level = "low"

(***************************************************************************)
(* The dashboard (src/src/web_app/app.py) and its data source              *)
(* (src/src/data_collection/database_setup.py).  The database is the       *)
(* sqlite file both modules open; a request of GET /api/dashboard-data     *)
(* runs EnhancedAgricultureDashboard.get_dashboard_data.  The NDVI of a    *)
(* field comes from random.uniform, the process-wide generator of the      *)
(* random module: a deterministic function of the generator's state,       *)
(* which every draw advances.                                              *)
(***************************************************************************)
MaxFarms == 2          \* create_sample_data calls made on the database

RequestIds == {1, 2}   \* two requests served at the same time

FarmIds == 1..(MaxFarms + 1)   \* farm_id query parameters, one of no farm

WATER_PER_HECTARE == 8          \* allocated_water = int(area * 8 * (1.5 - ndvi))
SUFFICIENCY_PER_HECTARE == 12   \* allocation_sufficiency = allocated / (area * 12)
MOCK_FIELDS == 9                \* len(field_coordinates)

\* the rows create_sample_data inserts for a farm (historical_yield in tenths)
SampleFields(farm_id) ==
    <<[farm_id |-> farm_id, field_name |-> "North_Hills",
       area_hectares |-> 45, historical_yield |-> 34],
      [farm_id |-> farm_id, field_name |-> "South_Valley",
       area_hectares |-> 68, historical_yield |-> 27],
      [farm_id |-> farm_id, field_name |-> "East_Plateau",
       area_hectares |-> 52, historical_yield |-> 36],
      [farm_id |-> farm_id, field_name |-> "West_Plains",
       area_hectares |-> 78, historical_yield |-> 28],
      [farm_id |-> farm_id, field_name |-> "Central_Basin",
       area_hectares |-> 35, historical_yield |-> 32]>>

SampleFarm(farm_id) == [id |-> farm_id, name |-> "Drought-Prone Valley Farm"]

\* the management zones create_sample_data inserts for a farm
\* (soil_health_score in hundredths)
SampleZones(farm_id) ==
    <<[farm_id |-> farm_id, zone_name |-> "High_Productivity_Zone",
       soil_health_score |-> 85, water_priority |-> 1],
      [farm_id |-> farm_id, zone_name |-> "Medium_Productivity_Zone",
       soil_health_score |-> 65, water_priority |-> 2],
      [farm_id |-> farm_id, zone_name |-> "Low_Productivity_Zone",
       soil_health_score |-> 45, water_priority |-> 3]>>

\* the satellite readings create_sample_data inserts: the field ids are the
\* literals 1..5 of the source, whatever ids the fields of this call got
\* (ndvi_value in hundredths; capture_date is the day of the call less 7)
SampleReadings(day) ==
    <<[field_id |-> 1, ndvi_value |-> 68, capture_date |-> day],
      [field_id |-> 2, ndvi_value |-> 42, capture_date |-> day],
      [field_id |-> 3, ndvi_value |-> 72, capture_date |-> day],
      [field_id |-> 4, ndvi_value |-> 51, capture_date |-> day],
      [field_id |-> 5, ndvi_value |-> 61, capture_date |-> day]>>

\* date.today() of a create_sample_data call: the day of the call before
\* it, or a later one
CallDays(d) ==
    IF d.satellite = <<>> THEN {1}
    ELSE LET last == d.satellite[Len(d.satellite)].capture_date
         IN  {last, last + 1}

\* the file as the dashboard may find it when it starts: absent, empty (no
\* tables), with the schema and no rows, or filled by other hands with a
\* farm that has no fields or a field that has no area
FoundDatabases ==
    {NoDatabase,
     [NoDatabase EXCEPT !.exists = TRUE],
     [NoDatabase EXCEPT !.exists = TRUE, !.schema = TRUE],
     [NoDatabase EXCEPT !.exists = TRUE, !.schema = TRUE,
                        !.farms = <<SampleFarm(1)>>],
     [NoDatabase EXCEPT !.exists = TRUE, !.schema = TRUE,
                        !.farms = <<SampleFarm(1)>>,
                        !.fields = <<[farm_id |-> 1, field_name |-> "Unsurveyed",
                                      area_hectares |-> None,
                                      historical_yield |-> 30]>>]}

\* simulated_ndvi of get_nasa_ndvi_data, in hundredths, as the generator
\* gives it in state k (within the clamp [0.1, 0.95])
NdviStream(k) == <<35, 72, 55, 10, 95>>[(k % 5) + 1]

NoFarm == [id |-> 0, name |-> ""]

NoPayload == [keys |-> {}]

IdleRequest ==
    [pc |-> "idle", farm_id |-> 0, farm |-> NoFarm, fields |-> <<>>,
     printed |-> "", outcome |-> "none", payload |-> NoPayload]

PayloadKeys == {"farm_name", "analysis_date", "fields", "summary", "satellite_metrics"}

InitDashboard ==
    /\ df = NoFrame
    /\ call = NoCall
    /\ result = NoResult
    /\ previous = NoRun
    /\ report = NoReport
    /\ db \in FoundDatabases
    /\ rng = 0
    /\ requests = [r \in RequestIds |-> IdleRequest]
    /\ analysis = NoAnalysis
    /\ sim = NoSim

\* SELECT ... FROM farms WHERE id = ?  (fetchone: the row, or None)
FarmOf(farms, farm_id) ==
    IF farm_id \in 1..Len(farms) THEN farms[farm_id] ELSE NoFarm

\* a query that forgets its WHERE clause
AllFields(rows, farm_id) == rows

\* SELECT ... FROM fields WHERE farm_id = ?
FieldsOfFarm(rows, farm_id) ==
    LET OfFarm(row) == row.farm_id = farm_id
    IN  SelectSeq(rows, OfFarm)

\* int(area * 8 * (1.5 - ndvi)), ndvi in hundredths
AllocatedWater(area, ndvi) == Trunc(R(area * WATER_PER_HECTARE * (150 - ndvi), 100))

RECURSIVE SumKey(_, _, _)
SumKey(rows, key, k) == IF k = 0 THEN 0 ELSE SumKey(rows, key, k - 1) + rows[k][key]

WaterStressCount(fields) ==
    Cardinality({i \in 1..Len(fields) :
                    RLess(fields[i].allocation_sufficiency, R(6, 10))})

\* calculate_priority_score(field, ndvi_value): yield in tenths, ndvi in
\* hundredths
PriorityScore(row, ndvi) ==
    LET yield_factor == PyMin(R(1, 1), RDiv(R(row.historical_yield, 10), R(8, 1)))
        area_factor == PyMin(R(1, 1), RDiv(R(row.area_hectares, 1), R(200, 1)))
    IN  Round3(RAdd(RAdd(RMul(yield_factor, R(3, 10)), RMul(area_factor, R(2, 10))),
                    RMul(R(ndvi, 100), R(5, 10))))

\* len([f for f in fields if f['priority_score'] > 0.7])
HighPriorityZones(fields) ==
    Cardinality({i \in 1..Len(fields) : PyGreater(fields[i].priority_score, R(7, 10))})

\* health_counts[health_report['status']] += 1 over the fields
HealthCounts(fields) ==
    [st \in {"healthy", "moderate", "stressed", "critical"} |->
        Cardinality({i \in 1..Len(fields) : fields[i].status = st})]

\* the field_data of process_enhanced_data for the i-th row, the generator
\* being in state k when the loop reaches it
FieldData(row, k) ==
    LET ndvi == NdviStream(k)
        allocated == AllocatedWater(row.area_hectares, ndvi)
    IN  [name |-> row.field_name,
         area_hectares |-> row.area_hectares,
         historical_yield |-> row.historical_yield,
         ndvi_value |-> ndvi,
         priority_score |-> PriorityScore(row, ndvi),
         status |-> VegetationHealthReport(R(ndvi, 100)).status,
         allocated_water |-> allocated,
         allocation_sufficiency |->
             Sufficiency(allocated, row.area_hectares * SUFFICIENCY_PER_HECTARE)]

\* sum(field['area_hectares'] ...) and the arithmetic of the loop raise
\* TypeError on a NULL area
ProcessRaises(rows) == \E i \in 1..Len(rows) : rows[i].area_hectares = None

ProcessEnhancedData(farm, rows, k) ==
    LET fields == Column([i \in 1..Len(rows) |-> FieldData(rows[i], k + i - 1)])
        base == [total_fields |-> Len(rows),
                 total_area |-> SumKey(rows, "area_hectares", Len(rows)),
                 high_priority_zones |-> 0,
                 water_stress_count |-> 0]
    IN  [farm_name |-> IF farm = NoFarm THEN "Satellite-Monitored Farm" ELSE farm.name,
         keys |-> PayloadKeys,
         fields |-> fields,
         \* if dashboard_data['fields']: only then is the total added
         summary |->
             IF fields = <<>>
             THEN base
             ELSE [total_fields |-> base.total_fields,
                   total_area |-> base.total_area,
                   total_water_allocated |->
                       SumKey(fields, "allocated_water", Len(fields)),
                   high_priority_zones |-> HighPriorityZones(fields),
                   water_stress_count |-> WaterStressCount(fields)],
         health_distribution |-> HealthCounts(fields)]

MockNames ==
    <<"North Valley", "South Slope", "East Ridge", "West Plains", "Central Basin",
      "River Bottom", "Hilltop View", "Meadow Field", "Heritage Acres">>

MockField(i, k) ==
    [name |-> MockNames[i + 1],
     area_hectares |-> 45 + i * 8,
     historical_yield |-> 60 + i * 4,
     ndvi_value |-> NdviStream(k),
     priority_score |-> Round3(R(30 + i * 8, 100)),
     status |-> VegetationHealthReport(R(NdviStream(k), 100)).status,
     allocated_water |-> 80000 + i * 12000,
     allocation_sufficiency |-> R(65 + i * 4, 100)]

EnhancedMockData(k) ==
    LET fields == Column([j \in 1..MOCK_FIELDS |-> MockField(j - 1, k + j - 1)])
    IN  [farm_name |-> "Satellite-Enhanced Precision Farm",
         keys |-> PayloadKeys,
         fields |-> fields,
         summary |->
             [total_fields |-> Len(fields),
              total_water_allocated |-> SumKey(fields, "allocated_water", Len(fields)),
              high_priority_zones |-> HighPriorityZones(fields),
              water_stress_count |-> WaterStressCount(fields)],
         health_distribution |-> HealthCounts(fields)]

\* a handler without the except clause: the exception leaves the request
Propagated(req, e, k) ==
    [req EXCEPT !.pc = "done", !.printed = "", !.outcome = e]

\* except Exception as e: print(...); return self.get_enhanced_mock_data()
OnException(req, e, k) ==
    [req EXCEPT !.pc = "done", !.printed = e, !.outcome = "ok",
                !.payload = EnhancedMockData(k)]

Returns(req, payload) ==
    [req EXCEPT !.pc = "done", !.outcome = "ok", !.payload = payload]

\* python -m database_setup: AgricultureDatabase() opens (and so creates) the
\* file, setup_database creates the tables that are missing
SetupDatabase ==
    /\ ~db.schema
    /\ db' = [db EXCEPT !.exists = TRUE, !.schema = TRUE]
    /\ UNCHANGED <<df, call, result, previous, report, rng, requests, analysis, sim>>

\* create_sample_data: one farm, its five fields, three zones and five
\* satellite readings, committed together; the id of a row is its position
\* in its table (AUTOINCREMENT, nothing is ever deleted); on a file without
\* tables the INSERT raises and None is returned
CreateSampleData ==
    /\ \/ db.schema /\ Len(db.farms) < MaxFarms
       \/ ~db.exists
    /\ \E day \in CallDays(db) :
          db' = IF db.schema
                THEN LET farm_id == Len(db.farms) + 1
                     IN  [db EXCEPT !.farms = Append(@, SampleFarm(farm_id)),
                                    !.fields = @ \o SampleFields(farm_id),
                                    !.zones = @ \o SampleZones(farm_id),
                                    !.satellite = @ \o SampleReadings(day)]
                ELSE [db EXCEPT !.exists = TRUE]
    /\ UNCHANGED <<df, call, result, previous, report, rng, requests, analysis, sim>>

\* GET /api/dashboard-data?farm_id=N
Receive(r) ==
    /\ requests[r].pc = "idle"
    /\ \E farm_id \in FarmIds :
          requests' = [requests EXCEPT ![r] =
                          [@ EXCEPT !.pc = "exists", !.farm_id = farm_id]]
    /\ UNCHANGED <<df, call, result, previous, report, db, rng, analysis, sim>>

\* if not os.path.exists(self.db_path): return self.get_enhanced_mock_data()
CheckPath(r) ==
    /\ requests[r].pc = "exists"
    /\ IF db.exists
       THEN /\ requests' = [requests EXCEPT ![r] = [@ EXCEPT !.pc = "farm"]]
            /\ rng' = rng
       ELSE /\ requests' = [requests EXCEPT ![r] = Returns(@, EnhancedMockData(rng))]
            /\ rng' = rng + MOCK_FIELDS
    /\ UNCHANGED <<df, call, result, previous, report, db, analysis, sim>>

\* the SELECT on farms; "no such table" on a file without the schema
QueryFarm(r) ==
    /\ requests[r].pc = "farm"
    /\ IF db.schema
       THEN /\ requests' = [requests EXCEPT ![r] =
                   [@ EXCEPT !.pc = "fields", !.farm = FarmOf(db.farms, requests[r].farm_id)]]
            /\ rng' = rng
       ELSE /\ requests' = [requests EXCEPT ![r] = OnException(@, "OperationalError", rng)]
            /\ rng' = rng + MOCK_FIELDS
    /\ UNCHANGED <<df, call, result, previous, report, db, analysis, sim>>

\* the SELECT on fields
QueryFields(r) ==
    /\ requests[r].pc = "fields"
    /\ requests' = [requests EXCEPT ![r] =
           [@ EXCEPT !.pc = "process", !.fields = FieldsOfFarm(db.fields, requests[r].farm_id)]]
    /\ UNCHANGED <<df, call, result, previous, report, db, rng, analysis, sim>>

\* return self.process_enhanced_data(farm, fields)
Process(r) ==
    /\ requests[r].pc = "process"
    /\ IF ProcessRaises(requests[r].fields)
       THEN /\ requests' = [requests EXCEPT ![r] = OnException(@, "TypeError", rng)]
            /\ rng' = rng + MOCK_FIELDS
       ELSE /\ requests' = [requests EXCEPT ![r] =
                   Returns(@, ProcessEnhancedData(@.farm, @.fields, rng))]
            /\ rng' = rng + Len(requests[r].fields)
    /\ UNCHANGED <<df, call, result, previous, report, db, analysis, sim>>

NextDashboard ==
    \/ SetupDatabase
    \/ CreateSampleData
    \/ \E r \in RequestIds : Receive(r)
    \/ \E r \in RequestIds : CheckPath(r)
    \/ \E r \in RequestIds : QueryFarm(r)
    \/ \E r \in RequestIds : QueryFields(r)
    \/ \E r \in RequestIds : Process(r)

SpecDashboard == InitDashboard /\ [][NextDashboard]_vars

Served(r) == requests[r].pc = "done"

MOCK_FARM_NAME == "Satellite-Enhanced Precision Farm"

\* C18: whatever the data source is like (file missing, query failing, farm
\* not present, farm without fields, a row that breaks the processing), a
\* served get_dashboard_data request has returned, never raised, and what it
\* returned has the keys farm_name, analysis_date, fields and summary.
C18_DashboardDataAlwaysReturned ==
    \A r \in DOMAIN requests :
        Served(r) =>
            /\ requests[r].outcome = "ok"
            /\ {"farm_name", "analysis_date", "fields", "summary"}
                   \subseteq requests[r].payload.keys
            /\ requests[r].payload.summary.total_fields = Len(requests[r].payload.fields)

\* one request served from a file whose query failed, another from a
\* database that has no such farm
C18_Witness ==
    \E r \in DOMAIN requests, q \in DOMAIN requests :
        /\ Served(r) /\ Served(q)
        /\ requests[r].printed = "OperationalError"
        /\ requests[r].payload.farm_name = MOCK_FARM_NAME
        /\ requests[q].printed = ""
        /\ requests[q].farm = NoFarm
        /\ requests[q].payload.farm_name = "Satellite-Monitored Farm"
        /\ requests[q].payload.fields = <<>>

\* the rows of the fields table that belong to farm F, as the database has them
StoredFields(F) ==
    LET OfFarm(row) == row.farm_id = F
    IN  SelectSeq(db.fields, OfFarm)

\* farm F and its fields are those create_sample_data inserted
BuiltBySampleData(F) ==
    /\ db.schema
    /\ F \in 1..Len(db.farms)
    /\ db.farms[F] = SampleFarm(F)
    /\ StoredFields(F) = SampleFields(F)

SameField(entry, row) ==
    /\ entry.name = row.field_name
    /\ entry.area_hectares = row.area_hectares
    /\ entry.historical_yield = row.historical_yield

InFlight(q) == requests[q].pc \in {"exists", "farm", "fields", "process"}

\* C20: of two requests in flight together neither writes state the other
\* reads: a step of one leaves the database and the generator of the random
\* module, which the other is still to draw from, as they were.
C20_RequestsShareNoMutableState ==
    [][\A r \in DOMAIN requests, q \in DOMAIN requests :
          (r # q /\ InFlight(q) /\ requests'[r] # requests[r])
              => (db' = db /\ rng' = rng)]_vars

InsertBy(rows, row, key, descending) ==
    LET before == IF descending
                  THEN Cardinality({i \in 1..Len(rows) : rows[i][key] >= row[key]})
                  ELSE Cardinality({i \in 1..Len(rows) : rows[i][key] <= row[key]})
    IN  SubSeq(rows, 1, before) \o <<row>> \o SubSeq(rows, before + 1, Len(rows))

RECURSIVE OrderBy(_, _, _, _)
OrderBy(rows, key, descending, k) ==
    IF k = 0 THEN <<>>
    ELSE InsertBy(OrderBy(rows, key, descending, k - 1), rows[k], key, descending)

\* a zone query without its WHERE clause
AllZones(zones, farm_id) == zones

\* ... FROM management_zones WHERE farm_id = ?
ZonesOfFarm(zones, farm_id) ==
    LET OfFarm(z) == z.farm_id = farm_id
    IN  SelectSeq(zones, OfFarm)

\* get_water_priority_data(farm_id): the zones of the farm ORDER BY
\* water_priority ASC; [] when the query raises (no connection, no table)
WaterPriorityData(d, connected, farm_id) ==
    IF ~connected \/ ~d.schema THEN <<>>
    ELSE LET zones == ZonesOfFarm(d.zones, farm_id)
         IN  OrderBy(zones, "water_priority", FALSE, Len(zones))

\* the rows of fields f LEFT JOIN satellite_data s ON f.id = s.field_id for
\* the field with id i: one per reading, or one with NULLs when it has none
JoinedRows(d, i) ==
    LET OfField(reading) == reading.field_id = i
        readings == SelectSeq(d.satellite, OfField)
        f == d.fields[i]
    IN  IF readings = <<>>
        THEN <<[field_name |-> f.field_name, area_hectares |-> f.area_hectares,
                historical_yield |-> f.historical_yield,
                ndvi_value |-> None, capture_date |-> None]>>
        ELSE [k \in 1..Len(readings) |->
                 [field_name |-> f.field_name, area_hectares |-> f.area_hectares,
                  historical_yield |-> f.historical_yield,
                  ndvi_value |-> readings[k].ndvi_value,
                  capture_date |-> readings[k].capture_date]]

RECURSIVE JoinFrom(_, _, _)
JoinFrom(d, farm_id, i) ==
    IF i > Len(d.fields) THEN <<>>
    ELSE (IF d.fields[i].farm_id = farm_id THEN JoinedRows(d, i) ELSE <<>>)
             \o JoinFrom(d, farm_id, i + 1)

\* get_field_health_data(farm_id): the join WHERE f.farm_id = ? ORDER BY
\* s.capture_date DESC (NULL dates last); [] when the query raises
FieldHealthData(d, connected, farm_id) ==
    IF ~connected \/ ~d.schema THEN <<>>
    ELSE LET rows == JoinFrom(d, farm_id, 1)
         IN  OrderBy(rows, "capture_date", TRUE, Len(rows))

\* a test that gives up only when both lists are empty
NoDataInBoth(zones, fields) == zones = <<>> /\ fields = <<>>

\* if not zones or not fields
NoData(zones, fields) == zones = <<>> \/ fields = <<>>

\* a column of the DataFrame built from the rows: NULL becomes NaN
YieldCell(v) == IF v = None THEN NaN ELSE R(v, 10)

\* field_data_for_ndvi
FieldDataForNdvi(rows) ==
    [i \in 1..Len(rows) |->
        [field_name |-> rows[i].field_name,
         soil_health_score |-> R(7, 10),
         historical_yield |-> YieldCell(rows[i].historical_yield)]]

\* dict(zip(ndvi_df['field_name'], ndvi_df['ndvi_value'])): the last result
\* of a name is the one the dict keeps; NaN for a name it has not
NdviMapping(ndvi_results, name) ==
    LET named == {i \in 1..Len(ndvi_results) : ndvi_results[i].field_name = name}
    IN  IF named = {} THEN NaN
        ELSE ndvi_results[CHOOSE i \in named : \A j \in named : j <= i].ndvi_value

\* a merge that keeps the stored reading (to one decimal) where the table
\* has one
KeepStoredNdvi(rows, ndvi_results) ==
    [i \in 1..Len(rows) |->
        [rows[i] EXCEPT !.ndvi_value =
            IF @ = None THEN NdviMapping(ndvi_results, rows[i].field_name)
            ELSE R(@ \div 10, 10)]]

\* fields_df['ndvi_value'] = fields_df['field_name'].map(ndvi_mapping),
\* then fillna(0.5): the stored column is overwritten
MergeNdvi(rows, ndvi_results) ==
    [i \in 1..Len(rows) |->
        [rows[i] EXCEPT !.ndvi_value =
            LET mapped == NdviMapping(ndvi_results, rows[i].field_name)
            IN  IF mapped.nan THEN R(1, 2) ELSE mapped]]

FarmColumns ==
    {"field_name", "area_hectares", "historical_yield", "ndvi_value", "capture_date"}

\* fields_df as handed to calculate_comprehensive_priority
FarmFrame(rows, month) ==
    [kind |-> "farm", columns |-> FarmColumns,
     rows |-> Column(MergeNdvi(rows, NdviSimulation(FieldDataForNdvi(rows), month)))]

InitFarm ==
    /\ df = NoFrame
    /\ call = NoCall
    /\ result = NoResult
    /\ previous = NoRun
    /\ report = NoReport
    /\ db \in FoundDatabases
    /\ rng = 0
    /\ requests = <<IdleRequest>>
    /\ analysis = NoAnalysis
    /\ sim = NoSim

\* IntegratedAgricultureAnalyzer(): AgricultureDatabase.connect() opens the
\* file, which creates it when it is not there; when the connection fails
\* self.connection stays None
OpenAnalyzer ==
    /\ analysis.pc = "none"
    /\ \E connected \in BOOLEAN :
          /\ analysis' = [pc |-> "ready", connected |-> connected, farm_id |-> 0,
                          zones |-> <<>>, fields |-> <<>>, month |-> 0,
                          simulated |-> FALSE, outcome |-> "none"]
          /\ db' = IF connected THEN [db EXCEPT !.exists = TRUE] ELSE db
    /\ UNCHANGED <<df, call, result, previous, report, rng, requests, sim>>

\* get_complete_farm_analysis(farm_id): zones = self.db.get_water_priority_data(farm_id)
QueryZones ==
    /\ analysis.pc = "ready"
    /\ \E farm_id \in FarmIds :
          analysis' = [analysis EXCEPT
                          !.pc = "zones", !.farm_id = farm_id,
                          !.zones = WaterPriorityData(db, analysis.connected, farm_id)]
    /\ UNCHANGED <<df, call, result, previous, report, db, rng, requests, sim>>

\* fields = self.db.get_field_health_data(farm_id)
QueryFieldHealth ==
    /\ analysis.pc = "zones"
    /\ analysis' = [analysis EXCEPT
                       !.pc = "fields",
                       !.fields = FieldHealthData(db, analysis.connected,
                                                  analysis.farm_id)]
    /\ UNCHANGED <<df, call, result, previous, report, db, rng, requests, sim>>

\* the largest fetched field table whose analysis is followed to its end
MaxRows == 10

\* the rest of get_complete_farm_analysis: return None without data, else
\* simulate the NDVI, merge it, score and print the recommendations
AnalyseFetched ==
    /\ analysis.pc = "fields"
    /\ Len(analysis.fields) <= MaxRows
    /\ IF NoData(analysis.zones, analysis.fields)
       THEN /\ analysis' = [analysis EXCEPT !.pc = "done", !.outcome = "None"]
            /\ UNCHANGED <<df, call, result, report>>
       ELSE \E month \in SimMonths,
               tie \in [1..Len(analysis.fields) -> MidDraws] :
               /\ df' = FarmFrame(analysis.fields, month)
               /\ call' = [scorer |-> "comprehensive",
                           available_water |-> AVAILABLE_WATER,
                           weights |-> NoWeights, tiebreak |-> tie]
               /\ result' \in ComprehensiveResults(df', tie)
               /\ report' = IF result'.outcome = "ok"
                            THEN IrrigationRecommendations(result'.rows)
                            ELSE NoReport
               /\ analysis' = [analysis EXCEPT
                                  !.pc = "done", !.month = month,
                                  !.simulated = TRUE,
                                  !.outcome = result'.outcome]
    /\ UNCHANGED <<previous, rng, requests, sim>>

\* an analysis that stores what it derived as a new satellite reading
AnalyseAndStore ==
    /\ AnalyseFetched
    /\ db' = IF db.schema /\ analysis'.outcome = "ok"
             THEN [db EXCEPT !.satellite =
                      Append(@, [field_id |-> 1, ndvi_value |-> 50,
                                 capture_date |-> 1])]
             ELSE db

\* nothing in get_complete_farm_analysis writes to the connection
Analyse ==
    /\ AnalyseFetched
    /\ db' = db

NextFarm ==
    \/ SetupDatabase
    \/ CreateSampleData
    \/ OpenAnalyzer
    \/ QueryZones
    \/ QueryFieldHealth
    \/ Analyse
    \/ \E r \in DOMAIN requests : Receive(r)
    \/ \E r \in DOMAIN requests : CheckPath(r)
    \/ \E r \in DOMAIN requests : QueryFarm(r)
    \/ \E r \in DOMAIN requests : QueryFields(r)
    \/ \E r \in DOMAIN requests : Process(r)

SpecFarm == InitFarm /\ [][NextFarm]_vars

Analysed == analysis.pc = "done"

\* C21: when the zone query or the field query of a finished
\* get_complete_farm_analysis gave no rows (the query failed, the connection
\* was never made, or the farm has none), the analysis returned None and
\* neither the NDVI simulation nor the scorer was invoked.
C21_NoDataReturnsNone ==
    (Analysed /\ (analysis.zones = <<>> \/ analysis.fields = <<>>)) =>
        /\ analysis.outcome = "None"
        /\ ~analysis.simulated
        /\ call = NoCall
        /\ result = NoResult
        /\ report = NoReport

\* the connection failed while the database holds the farm that was asked
\* for, with its zones and fields
C21_Witness ==
    /\ Analysed
    /\ ~analysis.connected
    /\ analysis.farm_id \in 1..Len(db.farms)
    /\ ZonesOfFarm(db.zones, analysis.farm_id) # <<>>
    /\ analysis.zones = <<>>
    /\ analysis.outcome = "None"

\* C22: in a database made by setup_database and create_sample_data calls
\* only, the rows get_field_health_data returned for a farm carry each field
\* name at most once.
C22_FieldNamesUnique ==
    (/\ analysis.pc \in {"fields", "done"}
     /\ \A F \in 1..Len(db.farms) : BuiltBySampleData(F))
    =>
        \A i, j \in 1..Len(analysis.fields) :
            analysis.fields[i].field_name = analysis.fields[j].field_name => i = j

\* the tables of the database
DbTables(d) == <<d.schema, d.farms, d.fields, d.zones, d.satellite>>

\* C24: no step of get_complete_farm_analysis (queries, simulation, scoring,
\* recommendations) and no step of a get_dashboard_data request changes a
\* table of the database.
C24_AnalysisPersistsNothing ==
    [][(analysis' # analysis \/ requests' # requests)
           => DbTables(db') = DbTables(db)]_vars

\* an analysis that scored a farm and a dashboard request answered from the
\* tables have both finished
C24_Witness ==
    /\ Analysed
    /\ analysis.outcome = "ok"
    /\ Len(result.rows) >= 5
    /\ Served(1)
    /\ requests[1].farm # NoFarm
    /\ Len(requests[1].payload.fields) = 5

\* C25: get_water_priority_data(farm_id) returns the empty list when the
\* query fails, and otherwise exactly the management zones of that farm, each
\* once, in non-decreasing water_priority.
C25_WaterPriorityData ==
    [][(analysis.pc = "ready" /\ analysis'.pc = "zones") =>
          LET zones == analysis'.zones
              F == analysis'.farm_id
              stored == {db.zones[i] : i \in {j \in 1..Len(db.zones) :
                                                  db.zones[j].farm_id = F}}
          IN  IF ~analysis.connected \/ ~db.schema THEN zones = <<>>
              ELSE /\ {zones[i] : i \in 1..Len(zones)} = stored
                   /\ Len(zones) = Cardinality(stored)
                   /\ \A i \in 1..Len(zones) :
                          i < Len(zones) =>
                              zones[i].water_priority <= zones[i + 1].water_priority]_vars

\* the three zones of the second of two farms were returned, in order
C25_Witness ==
    /\ analysis.pc = "zones"
    /\ analysis.farm_id = 2
    /\ Len(db.zones) = 6
    /\ Len(analysis.zones) = 3
    /\ analysis.zones[1].zone_name = "High_Productivity_Zone"
    /\ analysis.zones[3].water_priority = 3

\* the readings of the satellite_data table that reference the field with id i
ReadingsOf(i) == {j \in 1..Len(db.satellite) : db.satellite[j].field_id = i}

\* C27: in a database made by setup_database and create_sample_data calls
\* only, every field of every farm has exactly one satellite reading.
C27_EveryFieldHasOneReading ==
    (\A F \in 1..Len(db.farms) : BuiltBySampleData(F)) =>
        \A i \in 1..Len(db.fields) : Cardinality(ReadingsOf(i)) = 1

\* the database with every stored ndvi_value replaced by v
WithStoredNdvi(d, v) ==
    [d EXCEPT !.satellite = [j \in 1..Len(d.satellite) |->
                                [d.satellite[j] EXCEPT !.ndvi_value = v]]]

StoredNdviVariants == {None, 10, 95}

\* C29: on every database that differs from this one only in the stored
\* ndvi_value of its readings, the same analysis (same farm, same month)
\* hands the same table to the scoring, and the result of the finished
\* analysis (scores, priorities, allocations, order) is a result of scoring
\* that table with the same tie-break draws.
C29_StoredNdviHasNoInfluence ==
    (/\ Analysed
     /\ analysis.outcome = "ok"
     /\ analysis.fields = FieldHealthData(db, TRUE, analysis.farm_id))
    =>
        /\ \A v \in StoredNdviVariants :
               LET other == FieldHealthData(WithStoredNdvi(db, v), TRUE,
                                            analysis.farm_id)
               IN  FarmFrame(other, analysis.month) = df
        /\ result \in ComprehensiveResults(df, call.tiebreak)

\* the first farm was analysed with a reading stored for each of its fields
C29_Witness ==
    /\ Analysed
    /\ analysis.outcome = "ok"
    /\ analysis.farm_id = 1
    /\ analysis.fields = FieldHealthData(db, TRUE, 1)
    /\ \A i \in 1..Len(analysis.fields) : analysis.fields[i].ndvi_value # None
    /\ Len(result.rows) = 5

====
